---- MODULE Spec2Model ----
(***************************************************************************)
(* Model of the offline-first synchronization engine:                      *)
(*   src/src/services/syncService.ts  (SyncService, TaskService)           *)
(* The tasks table and the sync_queue table are the durable state; one     *)
(* sync() invocation runs at a time and is interleaved, at its awaits,     *)
(* with the mutating TaskService operations.                               *)
(***************************************************************************)
EXTENDS Integers, Sequences, FiniteSets, TLC

\* ------------------------------------------------------------------ bounds
MaxTasks == 2        \* task identifiers available to createTask
MaxEntries == 2      \* queue entries the TaskService operations may enqueue
MaxRemoteTime == 2   \* last-modification instants the remote authority reports: 1..MaxRemoteTime
MaxBatchSize == 2    \* configured SYNC_BATCH_SIZE ranges over 0..MaxBatchSize
MaxSnapshot == 5     \* snapshot lengths the slice loop is applied to on its own
MaxLoop == 2         \* iterations followed of a slice loop that does not advance

\* ------------------------------------------------------- program constants
MaxRetries == 3      \* handleSyncError: updated.retry_count > 3

\* uuidv4() identifiers: tasks and queue entries never share an identifier.
TaskIds == {100 + n : n \in 1..MaxTasks}
NewTitles == {"a"}       \* titles given to createTask
EditTitles == {"b"}      \* titles given to updateTask
RemoteTitles == {"r"}    \* titles held by the remote authority

VARIABLES
  tasks,        \* tasks table: function from the ids of the stored rows
  queue,        \* sync_queue table, in insertion order
  nextId,       \* next fresh queue-entry identifier (uuidv4)
  clock,        \* current instant (new Date()); it advances with every TaskService operation
  batchSize,    \* this.batchSize
  pc,           \* position of the sync() invocation
  queueItems,   \* sync(): the snapshot
  batches,      \* sync(): batches
  batchIdx,     \* sync(): index of the batch of the for-loop
  resIdx,       \* sync(): index of the processed item of the inner loop
  totalSynced,  \* sync(): totalSynced
  totalFailed,  \* sync(): totalFailed
  errors,       \* sync(): errors
  event,        \* history: the step taken last; a step that ends sync() carries its SyncResult
  calls,        \* history: processBatch calls made so far by the running sync()
  expired,      \* history: entry ids deleted by handleSyncError
  midCycle,     \* history: entry ids enqueued by TaskService operations after the snapshot
  settled       \* history: ids of the records the running sync() has marked 'synced'

vars == <<tasks, queue, nextId, clock, batchSize, pc, queueItems, batches, batchIdx,
          resIdx, totalSynced, totalFailed, errors, event, calls, expired, midCycle,
          settled>>

syncLocals == <<queueItems, batches, batchIdx, resIdx, totalSynced, totalFailed, errors>>

\* ----------------------------------------------------------------- helpers
Min(a, b) == IF a < b THEN a ELSE b

Ids(q) == {q[i].id : i \in DOMAIN q}

EntriesFor(q, taskId) == SelectSeq(q, LAMBDA e : e.task_id = taskId)

EntryOf(q, id) == q[CHOOSE i \in DOMAIN q : q[i].id = id]

\* {...existing, ...updates}
Spread(existing, updates) ==
  [f \in DOMAIN existing \cup DOMAIN updates |->
     IF f \in DOMAIN updates THEN updates[f] ELSE existing[f]]

NoEvent == [kind |-> "init"]

\* ------------------------------------------------- SyncService (pure parts)

\* slice with an inclusive end index
SliceInclusive(items, i, j) == SubSeq(items, i + 1, Min(j + 1, Len(items)))

\* Array.prototype.slice(i, j) on a 0-based array
Slice(items, i, j) == SubSeq(items, i + 1, Min(j, Len(items)))

RECURSIVE BatchesFrom(_, _, _)
BatchesFrom(items, size, i) ==
  IF i < Len(items)
    THEN <<Slice(items, i, i + size)>> \o BatchesFrom(items, size, i + size)
    ELSE <<>>

\* sync(): for (let i = 0; i < queueItems.length; i += this.batchSize) batches.push(slice)
MakeBatches(items, size) == BatchesFrom(items, size, 0)

\* SELECT * FROM sync_queue ORDER BY created_at ASC (stable insertion sort)
RECURSIVE InsertByCreatedAt(_, _)
InsertByCreatedAt(sorted, e) ==
  IF sorted = <<>> THEN <<e>>
  ELSE IF sorted[Len(sorted)].created_at <= e.created_at THEN Append(sorted, e)
  ELSE Append(InsertByCreatedAt(SubSeq(sorted, 1, Len(sorted) - 1), e), sorted[Len(sorted)])

RECURSIVE SelectQueue(_)
SelectQueue(q) ==
  IF q = <<>> THEN <<>>
  ELSE InsertByCreatedAt(SelectQueue(SubSeq(q, 1, Len(q) - 1)), q[Len(q)])

\* enqueue that replaces the queued entries of the record by the new one
AddToSyncQueueDedup(q, id, taskId, operation, data, now) ==
  Append(SelectSeq(q, LAMBDA e : e.task_id # taskId),
         [id |-> id, task_id |-> taskId, operation |-> operation, data |-> data,
          created_at |-> now, retry_count |-> 0, error_message |-> "none"])

\* addToSyncQueue: INSERT INTO sync_queue ... retry_count 0
AddToSyncQueue(q, id, taskId, operation, data, now) ==
  Append(q, [id |-> id, task_id |-> taskId, operation |-> operation, data |-> data,
             created_at |-> now, retry_count |-> 0, error_message |-> "none"])

\* last-write-wins with the tie going to the local side
ResolveConflictLocalOnTie(localTask, serverTask) ==
  IF localTask.updated_at >= serverTask.updated_at THEN localTask ELSE serverTask

\* resolveConflict: last-write-wins
ResolveConflict(localTask, serverTask) ==
  IF localTask.updated_at > serverTask.updated_at THEN localTask ELSE serverTask

\* settlement that deletes one queue entry of the record instead of all of them
UpdateSyncStatusOneEntry(ts, q, taskId, status, serverData, now) ==
  LET hit == {i \in DOMAIN q : q[i].task_id = taskId}
      first == CHOOSE i \in hit : \A j \in hit : i <= j
      ts2 == IF taskId \in DOMAIN ts
               THEN [ts EXCEPT ![taskId] =
                       [@ EXCEPT !.sync_status = status, !.last_synced_at = now]]
               ELSE ts
      q2 == IF status = "synced" /\ hit # {}
              THEN SubSeq(q, 1, first - 1) \o SubSeq(q, first + 1, Len(q)) ELSE q
  IN [tasks |-> ts2, queue |-> q2]

\* updateSyncStatus: UPDATE tasks ... WHERE id = ?; DELETE FROM sync_queue WHERE task_id = ?
\* serverData is <<>> (undefined) or <<data>>
UpdateSyncStatus(ts, q, taskId, status, serverData, now) ==
  LET sid == IF serverData # <<>> /\ "server_id" \in DOMAIN serverData[1]
                  /\ serverData[1].server_id # "none"
               THEN serverData[1].server_id ELSE "none"
      ts2 == IF taskId \in DOMAIN ts
               THEN [ts EXCEPT ![taskId] =
                       [@ EXCEPT !.sync_status = status,
                                 !.server_id = IF sid # "none" THEN sid ELSE @,
                                 !.last_synced_at = now]]
               ELSE ts
      q2 == IF status = "synced" THEN SelectSeq(q, LAMBDA e : e.task_id # taskId) ELSE q
  IN [tasks |-> ts2, queue |-> q2]

\* retry ledger that expires an entry one failure early
HandleSyncErrorEarly(q, item, message) ==
  LET q1 == [i \in DOMAIN q |->
               IF q[i].id = item.id
                 THEN [q[i] EXCEPT !.retry_count = @ + 1, !.error_message = message]
                 ELSE q[i]]
  IN SelectSeq(q1, LAMBDA e : ~(e.id = item.id /\ e.retry_count >= MaxRetries))

\* handleSyncError: retry_count + 1, then DELETE when retry_count > 3
HandleSyncError(q, item, message) ==
  LET q1 == [i \in DOMAIN q |->
               IF q[i].id = item.id
                 THEN [q[i] EXCEPT !.retry_count = @ + 1, !.error_message = message]
                 ELSE q[i]]
  IN SelectSeq(q1, LAMBDA e : ~(e.id = item.id /\ e.retry_count > MaxRetries))

\* catch of a batch that records the failure of its first entry only
HandleBatchErrorFirstOnly(q, batch, message) ==
  IF batch = <<>> THEN q
  ELSE [i \in DOMAIN q |->
          IF q[i].id = Head(batch).id
            THEN [q[i] EXCEPT !.retry_count = @ + 1, !.error_message = message]
            ELSE q[i]]

\* sync(), catch of a batch: for (const item of batch) await this.handleSyncError(item, err)
RECURSIVE HandleBatchError(_, _, _)
HandleBatchError(q, batch, message) ==
  IF batch = <<>> THEN q
  ELSE HandleBatchError(HandleSyncError(q, Head(batch), message), Tail(batch), message)

\* entry ids of a batch that handleSyncError deletes from q
Expiring(q, batch) ==
  {batch[i].id : i \in DOMAIN batch} \cap (Ids(q) \ Ids(HandleBatchError(q, batch, "")))

\* --------------------------------------------------- TaskService (pure parts)

\* getTask: SELECT * FROM tasks WHERE id = ?; null when missing or is_deleted
HasTask(ts, id) == id \in DOMAIN ts /\ ~ts[id].is_deleted

\* updateTask on an existing task: UPDATE tasks SET title, ..., is_deleted, sync_status
UpdatedRow(existing, updates, now) ==
  LET merged == Spread(existing, updates)
  IN [existing EXCEPT !.title = merged.title,
                      !.updated_at = now,
                      !.is_deleted = merged.is_deleted,
                      !.sync_status = "pending"]

\* updateTask(id, updates): row update, then addToSyncQueue(id, 'update', updates)
UpdateTask(ts, q, id, updates, now, entryId) ==
  IF HasTask(ts, id)
    THEN [tasks |-> [ts EXCEPT ![id] = UpdatedRow(ts[id], updates, now)],
          queue |-> AddToSyncQueue(q, entryId, id, "update", updates, now),
          added |-> TRUE]
    ELSE [tasks |-> ts, queue |-> q, added |-> FALSE]

\* ------------------------------------------------------------------- Init
Init ==
  /\ tasks = <<>>
  /\ queue = <<>>
  /\ nextId = 1
  /\ clock = 1
  /\ batchSize \in 0..MaxBatchSize
  /\ pc = "idle"
  /\ queueItems = <<>>
  /\ batches = <<>>
  /\ batchIdx = 0
  /\ resIdx = 0
  /\ totalSynced = 0
  /\ totalFailed = 0
  /\ errors = <<>>
  /\ event = NoEvent
  /\ calls = 0
  /\ expired = {}
  /\ midCycle = {}
  /\ settled = {}

InCycle == pc \in {"batch", "results"}

\* the slice loop of sync() has no await: while it runs, no other handler does
Blocked == pc = "partition"

NoteEnqueued(ids) == midCycle' = IF InCycle THEN midCycle \cup ids ELSE midCycle

\* a TaskService operation on a record makes it 'pending' again
NoteTouched(id) == settled' = settled \ {id}

\* ------------------------------------------------- TaskService operations
CreateTask(id, title) ==
  /\ ~Blocked
  /\ nextId <= MaxEntries
  /\ id \notin DOMAIN tasks
  /\ \A other \in TaskIds \ DOMAIN tasks : id <= other
  /\ LET newTask == [title |-> title, updated_at |-> clock, is_deleted |-> FALSE,
                     sync_status |-> "pending", server_id |-> "none", last_synced_at |-> 0]
     IN /\ tasks' = [t \in DOMAIN tasks \cup {id} |-> IF t = id THEN newTask ELSE tasks[t]]
        /\ queue' = AddToSyncQueue(queue, nextId, id, "create", newTask, clock)
  /\ nextId' = nextId + 1
  /\ NoteEnqueued({nextId})
  /\ NoteTouched(id)
  /\ clock' = clock + 1
  /\ event' = [kind |-> "createTask", task |-> id]
  /\ UNCHANGED <<batchSize, pc, syncLocals, calls, expired>>

UpdateTaskCall(id, title) ==
  /\ ~Blocked
  /\ nextId <= MaxEntries
  /\ HasTask(tasks, id)
  /\ LET r == UpdateTask(tasks, queue, id, [title |-> title], clock, nextId)
     IN /\ tasks' = r.tasks
        /\ queue' = r.queue
  /\ nextId' = nextId + 1
  /\ NoteEnqueued({nextId})
  /\ NoteTouched(id)
  /\ clock' = clock + 1
  /\ event' = [kind |-> "updateTask", task |-> id]
  /\ UNCHANGED <<batchSize, pc, syncLocals, calls, expired>>

DeleteTask(id) ==
  /\ ~Blocked
  /\ nextId <= MaxEntries
  /\ HasTask(tasks, id)
  /\ tasks' = [tasks EXCEPT ![id] = [@ EXCEPT !.is_deleted = TRUE, !.updated_at = clock,
                                              !.sync_status = "pending"]]
  /\ queue' = AddToSyncQueue(queue, nextId, id, "delete", [id |-> id], clock)
  /\ nextId' = nextId + 1
  /\ NoteEnqueued({nextId})
  /\ NoteTouched(id)
  /\ clock' = clock + 1
  /\ event' = [kind |-> "deleteTask", task |-> id]
  /\ UNCHANGED <<batchSize, pc, syncLocals, calls, expired>>

\* ------------------------------------------- task routes (src/src/routes/tasks.ts)
\* The create handler is taken in one step: the TaskService call and then the handler's
\* own addToSyncQueue call, which gets the later instant and the next entry id.

\* the uuidv4() the POST handler draws for newTask: never the id of a stored record
RouteTaskId(id) == id + 100

\* router.post('/'): taskService.createTask(newTask) stores the record under an id of
\* its own; then syncService.addToSyncQueue(newTask.id, 'create', newTask); the response
\* is newTask
PostTask(id, title) ==
  /\ ~Blocked
  /\ nextId + 1 <= MaxEntries
  /\ id \notin DOMAIN tasks
  /\ \A other \in TaskIds \ DOMAIN tasks : id <= other
  /\ LET stored == [title |-> title, updated_at |-> clock, is_deleted |-> FALSE,
                    sync_status |-> "pending", server_id |-> "none", last_synced_at |-> 0]
         q1 == AddToSyncQueue(queue, nextId, id, "create", stored, clock)
     IN /\ tasks' = [t \in DOMAIN tasks \cup {id} |-> IF t = id THEN stored ELSE tasks[t]]
        /\ queue' = AddToSyncQueue(q1, nextId + 1, RouteTaskId(id), "create", stored,
                                   clock + 1)
  /\ nextId' = nextId + 2
  /\ NoteEnqueued({nextId, nextId + 1})
  /\ NoteTouched(id)
  /\ clock' = clock + 2
  /\ event' = [kind |-> "postTask", task |-> id, responseId |-> RouteTaskId(id)]
  /\ UNCHANGED <<batchSize, pc, syncLocals, calls, expired>>

\* -------------------------------------------------------- sync(): the cycle
GlobalError(message) ==
  [success |-> FALSE, synced_items |-> 0, failed_items |-> 0,
   errors |-> <<[task_id |-> "global", operation |-> "sync", error |-> message]>>]

EmptyResult == [success |-> TRUE, synced_items |-> 0, failed_items |-> 0, errors |-> <<>>]

\* return { success: totalFailed === 0, synced_items, failed_items, errors }
CycleResult(synced, failed, errs) ==
  [success |-> failed = 0, synced_items |-> synced, failed_items |-> failed, errors |-> errs]

\* closed gate handled as a failed dispatch of everything queued
SyncGateClosedCountsFailures ==
  /\ pc = "idle"
  /\ queue' = HandleBatchError(queue, SelectQueue(queue), "Server not reachable")
  /\ expired' = expired \cup Expiring(queue, SelectQueue(queue))
  /\ event' = [kind |-> "gateClosed", result |-> GlobalError("Server not reachable")]
  /\ UNCHANGED <<tasks, nextId, clock, batchSize, pc, syncLocals, calls, midCycle, settled>>

\* checkConnectivity() is false: throw new Error('Server not reachable'), outer catch
SyncGateClosed ==
  /\ pc = "idle"
  /\ event' = [kind |-> "gateClosed", result |-> GlobalError("Server not reachable")]
  /\ UNCHANGED <<tasks, queue, nextId, clock, batchSize, pc, syncLocals, calls, expired,
                 midCycle, settled>>

\* empty snapshot reported as a failed cycle
SyncEmptyAsFailure ==
  /\ pc = "idle"
  /\ SelectQueue(queue) = <<>>
  /\ event' = [kind |-> "emptySnapshot", result |-> GlobalError("Nothing to sync")]
  /\ UNCHANGED <<tasks, queue, nextId, clock, batchSize, pc, syncLocals, calls, expired,
                 midCycle, settled>>

\* checkConnectivity() is true and db.all(...) returns no row:
\* return { success: true, synced_items: 0, failed_items: 0, errors: [] }
SyncEmpty ==
  /\ pc = "idle"
  /\ SelectQueue(queue) = <<>>
  /\ event' = [kind |-> "emptySnapshot", result |-> EmptyResult]
  /\ UNCHANGED <<tasks, queue, nextId, clock, batchSize, pc, syncLocals, calls, expired,
                 midCycle, settled>>

\* checkConnectivity() is true and db.all(...) returns rows: map them, build the
\* batches, reset the counters
SyncSnapshot ==
  /\ pc = "idle"
  /\ SelectQueue(queue) # <<>>
  /\ batchSize > 0
  /\ queueItems' = SelectQueue(queue)
  /\ batches' = MakeBatches(SelectQueue(queue), batchSize)
  /\ batchIdx' = 1
  /\ resIdx' = 0
  /\ totalSynced' = 0
  /\ totalFailed' = 0
  /\ errors' = <<>>
  /\ pc' = "batch"
  /\ midCycle' = {}
  /\ settled' = {}
  /\ event' = [kind |-> "snapshot"]
  /\ UNCHANGED <<tasks, queue, nextId, clock, batchSize, calls, expired>>

\* checkConnectivity() is true, db.all(...) returns rows and this.batchSize is 0:
\* for (let i = 0; i < queueItems.length; i += 0) never leaves i = 0
SyncSnapshotZeroSize ==
  /\ pc = "idle"
  /\ SelectQueue(queue) # <<>>
  /\ batchSize = 0
  /\ queueItems' = SelectQueue(queue)
  /\ batches' = <<>>
  /\ pc' = "partition"
  /\ midCycle' = {}
  /\ settled' = {}
  /\ event' = [kind |-> "snapshot"]
  /\ UNCHANGED <<tasks, queue, nextId, clock, batchSize, batchIdx, resIdx, totalSynced,
                 totalFailed, errors, calls, expired>>

\* one iteration of the slice loop: batches.push(queueItems.slice(i, i + this.batchSize))
\* with i = (iterations done) * batchSize
PartitionStep ==
  /\ pc = "partition"
  /\ Len(batches) < MaxLoop
  /\ Len(batches) * batchSize < Len(queueItems)
  /\ batches' = Append(batches, Slice(queueItems, Len(batches) * batchSize,
                                      Len(batches) * batchSize + batchSize))
  /\ event' = [kind |-> "slice", iteration |-> Len(batches) + 1]
  /\ UNCHANGED <<tasks, queue, nextId, clock, batchSize, pc, queueItems, batchIdx, resIdx,
                 totalSynced, totalFailed, errors, calls, expired, midCycle, settled>>

\* The end of an iteration of for (const batch of batches): the next batch, or the end
\* of the loop and, with no await in between, the return of sync()
EndOfBatch(synced, failed, errs, done) ==
  IF batchIdx < Len(batches)
    THEN /\ batchIdx' = batchIdx + 1
         /\ resIdx' = 0
         /\ pc' = "batch"
         /\ totalSynced' = synced
         /\ totalFailed' = failed
         /\ errors' = errs
         /\ settled' = done
         /\ UNCHANGED <<queueItems, batches, midCycle>>
    ELSE /\ pc' = "idle"
         /\ queueItems' = <<>>
         /\ batches' = <<>>
         /\ batchIdx' = 0
         /\ resIdx' = 0
         /\ totalSynced' = 0
         /\ totalFailed' = 0
         /\ errors' = <<>>
         /\ midCycle' = {}
         /\ settled' = {}

\* what the step hands back to the caller of sync(), if it ends the cycle
Returned(synced, failed, errs) ==
  IF batchIdx < Len(batches) THEN <<>> ELSE <<CycleResult(synced, failed, errs)>>

\* dispatch that does not wait for the outcomes of the batch before it
ProcessBatchOkEager ==
  /\ \/ pc = "batch" /\ batchIdx' = batchIdx
     \/ pc = "results" /\ batchIdx < Len(batches) /\ batchIdx' = batchIdx + 1
  /\ pc' = "results"
  /\ resIdx' = 1
  /\ calls' = calls + 1
  /\ event' = [kind |-> "dispatched", batch |-> batchIdx']
  /\ UNCHANGED <<tasks, queue, nextId, clock, batchSize, queueItems, batches,
                 totalSynced, totalFailed, errors, expired, midCycle, settled>>

\* processBatch(batch) resolves with a response
ProcessBatchOk ==
  /\ pc = "batch"
  /\ pc' = "results"
  /\ resIdx' = 1
  /\ calls' = calls + 1
  /\ event' = [kind |-> "dispatched", batch |-> batchIdx]
  /\ UNCHANGED <<tasks, queue, nextId, clock, batchSize, queueItems, batches, batchIdx,
                 totalSynced, totalFailed, errors, expired, midCycle, settled>>

\* processBatch(batch) rejects (network error or timeout): the catch of the batch
ProcessBatchFail(message) ==
  /\ pc = "batch"
  /\ LET batch == batches[batchIdx]
         failed == totalFailed + Len(batch)
     IN /\ queue' = HandleBatchError(queue, batch, message)
        /\ expired' = expired \cup Expiring(queue, batch)
        /\ EndOfBatch(totalSynced, failed, errors, settled)
        /\ event' = [kind |-> "transportFail", batch |-> batchIdx, size |-> Len(batch),
                     returned |-> Returned(totalSynced, failed, errors),
                     deferred |-> midCycle, snapshotSize |-> Len(queueItems),
                     settled |-> settled]
  /\ calls' = IF batchIdx < Len(batches) THEN calls + 1 ELSE 0
  /\ UNCHANGED <<tasks, nextId, clock, batchSize>>

\* The remote authority's answers for a submitted entry
Statuses == {"success", "conflict", "error"}
RemoteTasks ==
  [title : RemoteTitles, updated_at : 1..MaxRemoteTime, is_deleted : {FALSE},
   server_id : {"srv"}]
ResolvedData(status) ==
  CASE status = "success" -> {<<>>, <<[server_id |-> "srv"]>>}
    [] status = "conflict" -> {<<>>} \cup {<<r>> : r \in RemoteTasks}
    [] OTHER -> {<<>>}
ErrorTexts(status) == IF status = "error" THEN {"E"} ELSE {""}
TransportErrors == {"E"}   \* err.message of a rejected axios.post

\* the tables and counters as one processed item leaves them
Untouched ==
  [tasks |-> tasks, queue |-> queue, nextId |-> nextId, clock |-> clock,
   totalSynced |-> totalSynced, totalFailed |-> totalFailed, errors |-> errors,
   expired |-> expired]

\* sync(): result.status === 'success'
OnSuccess(cid, data) ==
  LET r == UpdateSyncStatus(tasks, queue, cid, "synced", data, clock)
  IN [Untouched EXCEPT !.tasks = r.tasks, !.queue = r.queue,
                       !.totalSynced = totalSynced + 1]

\* sync(): result.status === 'conflict' && result.resolved_data
OnConflict(cid, data) ==
  LET found == HasTask(tasks, cid)
      resolved == ResolveConflict(tasks[cid], data[1])
      u == IF found THEN UpdateTask(tasks, queue, cid, resolved, clock, nextId)
           ELSE [tasks |-> tasks, queue |-> queue, added |-> FALSE]
      r == UpdateSyncStatus(u.tasks, u.queue, cid, "synced", data,
                            IF u.added THEN clock + 1 ELSE clock)
  IN [Untouched EXCEPT !.tasks = r.tasks, !.queue = r.queue,
                       !.nextId = IF u.added THEN nextId + 1 ELSE nextId,
                       !.clock = IF u.added THEN clock + 1 ELSE clock]

\* error branch that charges the failure to every queue entry of the failed entry's record
OnErrorWholeRecord(cid, text) ==
  LET batch == batches[batchIdx]
      hit == {i \in DOMAIN batch : batch[i].id = cid}
      failedItem == batch[CHOOSE i \in hit : \A j \in hit : i <= j]
      errs == Append(errors, [task_id |-> cid, operation |-> "unknown",
                              error |-> IF text = "" THEN "Sync failed" ELSE text])
      counted == [Untouched EXCEPT !.totalFailed = totalFailed + 1, !.errors = errs]
  IN IF hit # {}
       THEN [counted EXCEPT
               !.queue = HandleBatchError(queue, EntriesFor(queue, failedItem.task_id),
                                          IF text = "" THEN "Sync error" ELSE text),
               !.expired = expired \cup Expiring(queue, EntriesFor(queue, failedItem.task_id))]
       ELSE counted

\* sync(): result.status === 'error'
OnError(cid, text) ==
  LET batch == batches[batchIdx]
      hit == {i \in DOMAIN batch : batch[i].id = cid}
      failedItem == batch[CHOOSE i \in hit : \A j \in hit : i <= j]
      errs == Append(errors, [task_id |-> cid, operation |-> "unknown",
                              error |-> IF text = "" THEN "Sync failed" ELSE text])
      counted == [Untouched EXCEPT !.totalFailed = totalFailed + 1, !.errors = errs]
  IN IF hit # {}
       THEN [counted EXCEPT
               !.queue = HandleSyncError(queue, failedItem,
                                         IF text = "" THEN "Sync error" ELSE text),
               !.expired = expired \cup Expiring(queue, <<failedItem>>)]
       ELSE counted

\* sync(): the branches of one processed item
Outcome(cid, status, data, text) ==
  CASE status = "success" -> OnSuccess(cid, data)
    [] status = "conflict" /\ data # <<>> -> OnConflict(cid, data)
    [] status = "error" -> OnError(cid, text)
    [] OTHER -> Untouched

\* sync(): one iteration of for (const result of response.processed_items); the remote
\* authority returns one processed item per submitted entry, identified either by the
\* entry's id (as POST /sync/batch of this repository does) or by the record's id
HandleResult(cidIsEntry, status, data, text) ==
  /\ pc = "results"
  /\ LET item == batches[batchIdx][resIdx]
         cid == IF cidIsEntry THEN item.id ELSE item.task_id
         called == status = "conflict" /\ data # <<>> /\ HasTask(tasks, cid)
         last == resIdx = Len(batches[batchIdx])
         marked == IF (status = "success" \/ (status = "conflict" /\ data # <<>>))
                        /\ cid \in DOMAIN tasks
                     THEN settled \cup {cid} ELSE settled
     IN \E out \in {Outcome(cid, status, data, text)} :
        /\ tasks' = out.tasks
        /\ queue' = out.queue
        /\ nextId' = out.nextId
        /\ clock' = out.clock
        /\ expired' = out.expired
        /\ IF last
             THEN /\ EndOfBatch(out.totalSynced, out.totalFailed, out.errors, marked)
                  /\ calls' = IF batchIdx < Len(batches) THEN calls ELSE 0
             ELSE /\ resIdx' = resIdx + 1
                  /\ totalSynced' = out.totalSynced
                  /\ totalFailed' = out.totalFailed
                  /\ errors' = out.errors
                  /\ settled' = marked
                  /\ UNCHANGED <<pc, batchIdx, queueItems, batches, midCycle, calls>>
        /\ event' = [kind |-> "result", status |-> status, entry |-> item.id,
                     task |-> item.task_id, cid |-> cid, hasData |-> data # <<>>, text |-> text,
                     remote |-> IF called THEN data ELSE <<>>,
                     local |-> IF called THEN <<tasks[cid]>> ELSE <<>>,
                     resolved |-> IF called
                                    THEN <<ResolveConflict(tasks[cid], data[1])>> ELSE <<>>,
                     again |-> event.kind = "result" /\ event.status = "success"
                               /\ status = "success" /\ event.cid = cid,
                     returned |-> IF last
                                    THEN Returned(out.totalSynced, out.totalFailed,
                                                  out.errors)
                                    ELSE <<>>,
                     deferred |-> midCycle, snapshotSize |-> Len(queueItems),
                     settled |-> marked]
  /\ UNCHANGED batchSize

\* ------------------------------------------------------------------- Next
Next ==
  \/ \E id \in TaskIds, title \in NewTitles : CreateTask(id, title)
  \/ \E id \in TaskIds, title \in EditTitles : UpdateTaskCall(id, title)
  \/ \E id \in TaskIds : DeleteTask(id)
  \/ \E id \in TaskIds, title \in NewTitles : PostTask(id, title)
  \/ SyncGateClosed
  \/ SyncEmpty
  \/ SyncSnapshot
  \/ SyncSnapshotZeroSize
  \/ PartitionStep
  \/ ProcessBatchOk
  \/ \E message \in TransportErrors : ProcessBatchFail(message)
  \/ \E cidIsEntry \in BOOLEAN, status \in Statuses :
       \E data \in ResolvedData(status), text \in ErrorTexts(status) :
         HandleResult(cidIsEntry, status, data, text)

Spec == Init /\ [][Next]_vars

\* Cycles keep being run with the gate open, and every await of a running cycle
\* completes: a cycle starts whenever entries are queued, a snapshot's batch is
\* dispatched, a response's next processed item is handled.
CycleProgress ==
  /\ WF_vars(SyncSnapshot)
  /\ WF_vars(ProcessBatchOk \/ \E message \in TransportErrors : ProcessBatchFail(message))
  /\ WF_vars(\E cidIsEntry \in BOOLEAN, status \in Statuses :
               \E data \in ResolvedData(status), text \in ErrorTexts(status) :
                 HandleResult(cidIsEntry, status, data, text))

LiveSpec == Spec /\ CycleProgress

\* ------------------------------------------- sync() with failing storage calls
\* A db.run / db.get / db.all that rejects throws at its await. The rejecting call
\* followed here is the first storage call of the operation it interrupts (the queue
\* read, the handling of a processed item, a handleSyncError), which has then written
\* nothing.
DbErrors == {"D"}   \* err.message of a rejected storage call

\* an exception propagating out of the try block it is thrown in
CatcherNoOuterTry(where) ==
  CASE where \in {"dispatch", "result"} -> "batchCatch"
    [] OTHER -> "caller"

\* The catch block that receives an exception thrown at `where`: the try of lines 59-84
\* encloses the dispatch and the handling of its results, the try of lines 28-99
\* encloses everything else, the catch of the batch included
Catcher(where) ==
  CASE where \in {"dispatch", "result"} -> "batchCatch"
    [] where \in {"read", "batchCatch"} -> "syncCatch"
    [] OTHER -> "caller"

\* sync() is left by an exception thrown at `where`: the outer catch returns the global
\* failure result; an exception that no catch receives reaches the caller
CycleFails(ts, q, nid, clk, exp, where, message) ==
  /\ tasks' = ts
  /\ queue' = q
  /\ nextId' = nid
  /\ clock' = clk
  /\ expired' = exp
  /\ pc' = "idle"
  /\ queueItems' = <<>>
  /\ batches' = <<>>
  /\ batchIdx' = 0
  /\ resIdx' = 0
  /\ totalSynced' = 0
  /\ totalFailed' = 0
  /\ errors' = <<>>
  /\ calls' = 0
  /\ midCycle' = {}
  /\ settled' = {}
  /\ event' = IF Catcher(where) = "syncCatch"
                THEN [kind |-> "cycleFail", where |-> where,
                      result |-> GlobalError(message), settled |-> settled]
                ELSE [kind |-> "thrown", where |-> where]
  /\ UNCHANGED batchSize

\* db.all('SELECT * FROM sync_queue ...') rejects
SyncReadFails(message) ==
  /\ pc = "idle"
  /\ CycleFails(tasks, queue, nextId, clock, expired, "read", message)

\* the catch of a batch whose for loop is left by a handleSyncError that throws at its
\* UPDATE: the items before it are done
PartialBatchCatch(q, batch, message) ==
  {HandleBatchError(q, SubSeq(batch, 1, j - 1), message) : j \in DOMAIN batch}

\* processBatch(batch) rejects and a handleSyncError of the catch throws
ProcessBatchFailCatchFails(message, dbMessage) ==
  /\ pc = "batch"
  /\ \E q2 \in PartialBatchCatch(queue, batches[batchIdx], message) :
       CycleFails(tasks, q2, nextId, clock, expired \cup (Ids(queue) \ Ids(q2)),
                  "batchCatch", dbMessage)

\* The handling of one processed item left by its first storage call throwing (the
\* UPDATE of updateSyncStatus, the SELECT of getTask, the UPDATE of handleSyncError): the
\* tables as they were, the counters as the statements before the call leave them. A
\* processed item handled without a storage call cannot be left this way.
PartialOutcomes(cid, status, data, text) ==
  LET batch == batches[batchIdx]
      hit == {i \in DOMAIN batch : batch[i].id = cid}
      counted == [Untouched EXCEPT
                    !.totalFailed = totalFailed + 1,
                    !.errors = Append(errors, [task_id |-> cid, operation |-> "unknown",
                                               error |-> IF text = "" THEN "Sync failed"
                                                         ELSE text])]
  IN CASE status = "success" -> {Untouched}
       [] status = "conflict" /\ data # <<>> -> {Untouched}
       [] status = "error" /\ hit # {} -> {counted}
       [] OTHER -> {}

\* a storage call throws while a processed item is handled: the catch of the batch
\* counts the whole batch as failed and runs handleSyncError on each of its items
HandleResultFails(cidIsEntry, status, data, text, dbMessage) ==
  /\ pc = "results"
  /\ LET item == batches[batchIdx][resIdx]
         cid == IF cidIsEntry THEN item.id ELSE item.task_id
         batch == batches[batchIdx]
     IN \E p \in PartialOutcomes(cid, status, data, text) :
          \E q2 \in {HandleBatchError(p.queue, batch, dbMessage)} :
            /\ tasks' = p.tasks
            /\ queue' = q2
            /\ nextId' = p.nextId
            /\ clock' = p.clock
            /\ expired' = expired \cup (Ids(p.queue) \ Ids(q2))
            /\ EndOfBatch(p.totalSynced, p.totalFailed + Len(batch), p.errors, settled)
            /\ calls' = IF batchIdx < Len(batches) THEN calls ELSE 0
            /\ event' = [kind |-> "resultFault", status |-> status, entry |-> item.id,
                         batch |-> batchIdx,
                         returned |-> Returned(p.totalSynced, p.totalFailed + Len(batch),
                                               p.errors),
                         deferred |-> midCycle, snapshotSize |-> Len(queueItems),
                         settled |-> settled]
  /\ UNCHANGED batchSize

\* a storage call throws while a processed item is handled, and a handleSyncError of the
\* catch of the batch throws too
HandleResultCatchFails(cidIsEntry, status, data, text, dbMessage) ==
  /\ pc = "results"
  /\ LET item == batches[batchIdx][resIdx]
         cid == IF cidIsEntry THEN item.id ELSE item.task_id
     IN \E p \in PartialOutcomes(cid, status, data, text) :
          \E q2 \in PartialBatchCatch(p.queue, batches[batchIdx], dbMessage) :
            CycleFails(p.tasks, q2, p.nextId, p.clock,
                       expired \cup (Ids(p.queue) \ Ids(q2)), "batchCatch", dbMessage)

NextWithFaults ==
  \/ Next
  \/ \E message \in DbErrors : SyncReadFails(message)
  \/ \E message \in TransportErrors, dbMessage \in DbErrors :
       ProcessBatchFailCatchFails(message, dbMessage)
  \/ \E cidIsEntry \in BOOLEAN, status \in Statuses, dbMessage \in DbErrors :
       \E data \in ResolvedData(status), text \in ErrorTexts(status) :
         \/ HandleResultFails(cidIsEntry, status, data, text, dbMessage)
         \/ HandleResultCatchFails(cidIsEntry, status, data, text, dbMessage)

FaultSpec == Init /\ [][NextWithFaults]_vars

\* ------------------------------------------------------------ properties
BatchIds(batch) == {batch[i].id : i \in DOMAIN batch}

RECURSIVE Flatten(_)
Flatten(bs) == IF bs = <<>> THEN <<>> ELSE Head(bs) \o Flatten(Tail(bs))

\* the step taken is the handling of one processed item
ResultStep == pc = "results" /\ event'.kind = "result"

\* the step taken is the catch of a rejected processBatch
TransportFailStep == pc = "batch" /\ event'.kind = "transportFail"

\* the step records a failure of queue entry e
FailureOf(e) ==
  \/ TransportFailStep /\ e.id \in BatchIds(batches[batchIdx])
  \/ ResultStep /\ event'.status = "error" /\ event'.cid = e.id

\* the step taken last ended a cycle that had passed the gate and read a non-empty queue
CycleEnded == event.kind \in {"result", "transportFail"} /\ event.returned # <<>>

\* C1: after a `success` outcome identified by the entry's id has been handled, the
\* entry's record is 'synced', carries the remote identifier when one was provided, and
\* the queue holds no entry for that record.
C1_SuccessSettlesRecord ==
  (event.kind = "result" /\ event.status = "success" /\ event.cid = event.entry
     /\ event.task \in DOMAIN tasks)
  => /\ tasks[event.task].sync_status = "synced"
     /\ event.hasData => tasks[event.task].server_id = "srv"
     /\ EntriesFor(queue, event.task) = <<>>

C3_RetryStep ==
  /\ \A i \in DOMAIN queue :
       LET e == queue[i] IN
         IF FailureOf(e)
           THEN IF e.retry_count + 1 > MaxRetries
                  THEN e.id \notin Ids(queue')
                  ELSE e.id \in Ids(queue')
                       /\ EntryOf(queue', e.id).retry_count = e.retry_count + 1
           ELSE e.id \in Ids(queue') => EntryOf(queue', e.id).retry_count = e.retry_count
  /\ \A id \in Ids(queue') \ Ids(queue) : EntryOf(queue', id).retry_count = 0
  /\ \A id \in 1..(nextId - 1) : id \notin Ids(queue) => id \notin Ids(queue')

C3_RetryState ==
  /\ \A i \in DOMAIN queue : queue[i].retry_count \in 0..MaxRetries
  /\ expired \cap Ids(queue) = {}
  /\ pc = "batch" =>
       \A k \in batchIdx..Len(batches) : BatchIds(batches[k]) \cap expired = {}
  /\ pc = "results" =>
       \A k \in (batchIdx + 1)..Len(batches) : BatchIds(batches[k]) \cap expired = {}

C3_RetryExpiry == [][C3_RetryStep]_vars /\ []C3_RetryState

C3_Witness ==
  /\ expired # {}
  /\ event.kind \in {"transportFail", "result"}
  /\ \E i \in DOMAIN queue : queue[i].retry_count = MaxRetries

\* C4: a sync() that finds the gate closed returns success=false, 0 synced, 0 failed and
\* exactly one error tagged 'global', calls processBatch not once, and changes neither
\* the queue nor any record.
C4_GateClosedStep ==
  (pc = "idle" /\ event'.kind = "gateClosed")
  => /\ event'.result.success = FALSE
     /\ event'.result.synced_items = 0
     /\ event'.result.failed_items = 0
     /\ Len(event'.result.errors) = 1
     /\ event'.result.errors[1].task_id = "global"
     /\ calls' = calls /\ pc' = "idle"
     /\ queue' = queue
     /\ tasks' = tasks

C4_GateClosed == [][C4_GateClosedStep]_vars

C4_Witness ==
  /\ event.kind = "gateClosed"
  /\ \E i \in DOMAIN queue : queue[i].retry_count > 0
  /\ DOMAIN tasks # {}

\* C5: a sync() that passes the gate and reads an empty queue returns success=true,
\* 0 synced, 0 failed and no error, has called processBatch not once, and changes
\* neither the queue nor any record.
C5_EmptySnapshotStep ==
  (pc = "idle" /\ event'.kind = "emptySnapshot")
  => /\ event'.result = [success |-> TRUE, synced_items |-> 0, failed_items |-> 0,
                         errors |-> <<>>]
     /\ calls = 0 /\ calls' = 0 /\ pc' = "idle"
     /\ queue' = queue
     /\ tasks' = tasks

C5_EmptySnapshot == [][C5_EmptySnapshotStep]_vars

C5_Witness ==
  /\ event.kind = "emptySnapshot"
  /\ DOMAIN tasks # {}

\* C6: when processBatch rejects for a batch of K entries, totalFailed grows by exactly
\* K, every entry of the batch that is in the queue has its retry count incremented by
\* exactly one (and is deleted when that exceeds MaxRetries), every other entry is left
\* alone, and the loop goes on with the next batch.
C6_TransportFailStep ==
  TransportFailStep
  => LET batch == batches[batchIdx] IN
       /\ batchIdx < Len(batches) =>
            totalFailed' = totalFailed + Len(batch) /\ totalSynced' = totalSynced
       /\ \A i \in DOMAIN queue :
            LET e == queue[i] IN
              IF e.id \in BatchIds(batch)
                THEN IF e.id \in Ids(queue')
                       THEN EntryOf(queue', e.id).retry_count = e.retry_count + 1
                       ELSE e.retry_count + 1 > MaxRetries
                ELSE e.id \in Ids(queue') /\ EntryOf(queue', e.id) = e
       /\ Ids(queue') \subseteq Ids(queue)
       /\ IF batchIdx < Len(batches)
            THEN batchIdx' = batchIdx + 1 /\ pc' = "batch" /\ batches' = batches
                 /\ event'.returned = <<>>
            ELSE pc' = "idle"
                 /\ event'.returned = <<CycleResult(totalSynced, totalFailed + Len(batch),
                                                    errors)>>

C6_TransportFailure == [][C6_TransportFailStep]_vars

C6_Witness ==
  /\ event.kind = "transportFail"
  /\ pc = "batch"
  /\ totalFailed = event.size
  /\ \A i \in DOMAIN batches[event.batch] :
       \E j \in DOMAIN queue : /\ queue[j].id = batches[event.batch][i].id
                               /\ queue[j].retry_count = 1

\* C7: the batches of a cycle are ceil(N/B) in number, all of size B but possibly the
\* last, none empty, and their concatenation is the snapshot, which is in enqueue order.
C7_SliceLoop ==
  \A n \in 1..MaxSnapshot, b \in 1..MaxBatchSize :
    LET items == [i \in 1..n |-> i]
        bs == MakeBatches(items, b)
    IN /\ Len(bs) = (n + b - 1) \div b
       /\ \A k \in 1..(Len(bs) - 1) : Len(bs[k]) = b
       /\ \A k \in DOMAIN bs : Len(bs[k]) \in 1..b
       /\ Flatten(bs) = items

C7_CyclePartition ==
  InCycle
  => LET N == Len(queueItems)
         B == batchSize
     IN /\ N > 0 /\ B > 0
        /\ Len(batches) = (N + B - 1) \div B
        /\ \A k \in 1..(Len(batches) - 1) : Len(batches[k]) = B
        /\ \A k \in DOMAIN batches : Len(batches[k]) \in 1..B
        /\ Flatten(batches) = queueItems
        /\ \A i, j \in DOMAIN queueItems :
             i < j => queueItems[i].created_at <= queueItems[j].created_at

C7_Partition == C7_SliceLoop /\ C7_CyclePartition

C7_Witness ==
  /\ pc = "batch"
  /\ Len(queueItems) = 2 /\ batchSize = 1
  /\ Len(batches) = 2 /\ Len(batches[2]) = 1

\* C8: a resolver call with local timestamp T1 and remote timestamp T2 returns the
\* local record when T1 > T2 and the remote record when T1 <= T2, whole.
C8_LastWriteWins ==
  (event.kind = "result" /\ event.local # <<>>)
  => LET l == event.local[1]
         r == event.remote[1]
         w == event.resolved[1]
     IN /\ l.updated_at > r.updated_at => w = l
        /\ l.updated_at <= r.updated_at => w = r

C8_Witness ==
  /\ event.kind = "result" /\ event.local # <<>>
  /\ event.local[1].updated_at = event.remote[1].updated_at
  /\ event.resolved = event.remote

\* C9: settling a record as 'synced' twice gives the state that settling it once gives
\* (but for the stamp of a later second settlement): the record is 'synced', the queue
\* holds no entry for it, and the second settlement changes no other record and no
\* entry of another record.
SuccessData == {<<>>, <<[server_id |-> "srv"]>>}

C9_SettleTwice ==
  \A t \in DOMAIN tasks \cup {queue[i].task_id : i \in DOMAIN queue}, d \in SuccessData :
    \A s1 \in {UpdateSyncStatus(tasks, queue, t, "synced", d, clock)} :
      \A s3 \in {UpdateSyncStatus(s1.tasks, s1.queue, t, "synced", d, clock + 1)} :
        /\ UpdateSyncStatus(s1.tasks, s1.queue, t, "synced", d, clock) = s1
        /\ s3.queue = s1.queue
        /\ DOMAIN s3.tasks = DOMAIN s1.tasks
        /\ \A o \in DOMAIN s1.tasks \ {t} : s3.tasks[o] = s1.tasks[o]
        /\ t \in DOMAIN tasks =>
             /\ s3.tasks[t] = [s1.tasks[t] EXCEPT !.last_synced_at = clock + 1]
             /\ s3.tasks[t].sync_status = "synced"
        /\ EntriesFor(s3.queue, t) = <<>>
        /\ SelectSeq(s3.queue, LAMBDA e : e.task_id # t)
             = SelectSeq(queue, LAMBDA e : e.task_id # t)

C9_Idempotent ==
  /\ C9_SettleTwice
  /\ (event.kind = "result" /\ event.again /\ event.cid \in DOMAIN tasks)
       => /\ tasks[event.cid].sync_status = "synced"
          /\ EntriesFor(queue, event.cid) = <<>>

C9_Witness ==
  /\ event.kind = "result" /\ event.again /\ event.cid \in DOMAIN tasks
  /\ tasks[event.cid].sync_status = "synced"
  /\ EntriesFor(queue, event.cid) = <<>>

\* C10: after a `conflict` outcome with remote data for an entry whose record is stored
\* (soft-deleted or not) has been handled, the resolver has been called on the local and
\* remote versions, the stored record holds the winning version and is 'synced', and the
\* queue holds no entry for that record.
C10_ConflictSettlesRecord ==
  (event.kind = "result" /\ event.status = "conflict" /\ event.hasData
     /\ event.task \in DOMAIN tasks)
  => /\ event.resolved # <<>>
     /\ event.resolved # <<>> => tasks[event.task].title = event.resolved[1].title
     /\ tasks[event.task].sync_status = "synced"
     /\ EntriesFor(queue, event.task) = <<>>

\* the SyncResult handed back by the step that ended the cycle
ReturnedResult == event.returned[1]

\* C11: at the end of a cycle that passed the gate, the error list of the result has one
\* item per failed entry: its length equals failed_items, for entries failed by an
\* `error` outcome and for entries failed by a batch transport failure alike.
C11_FailuresItemized ==
  CycleEnded => Len(ReturnedResult.errors) = ReturnedResult.failed_items

\* C18: at the end of a cycle that passed the gate and had no cycle-level failure,
\* synced_items + failed_items is the number of entries of the snapshot.
C18_EveryEntryCounted ==
  CycleEnded
  => ReturnedResult.synced_items + ReturnedResult.failed_items = event.snapshotSize

\* C13: when an entry gets an `error` outcome (identified by the entry's id), no record
\* changes, that entry alone has its retry count incremented by one and the error text
\* stored (the retry ledger deletes it when the count exceeds MaxRetries), and every other
\* queue entry, those of the same record included, is left as it was.
C13_ErrorStep ==
  (ResultStep /\ event'.status = "error" /\ event'.cid = event'.entry)
  => /\ tasks' = tasks
     /\ \A i \in DOMAIN queue :
          LET e == queue[i] IN
            IF e.id = event'.entry
              THEN IF e.retry_count + 1 > MaxRetries
                     THEN e.id \notin Ids(queue')
                     ELSE /\ e.id \in Ids(queue')
                          /\ EntryOf(queue', e.id) =
                               [e EXCEPT !.retry_count = @ + 1,
                                         !.error_message = event'.text]
              ELSE e.id \in Ids(queue') /\ EntryOf(queue', e.id) = e
     /\ Ids(queue') \subseteq Ids(queue)

C13_ErrorOutcomeFrame == [][C13_ErrorStep]_vars

C13_Witness ==
  /\ event.kind = "result" /\ event.status = "error" /\ event.cid = event.entry
  /\ event.task \in DOMAIN tasks /\ tasks[event.task].sync_status = "pending"
  /\ \E i, j \in DOMAIN queue :
       /\ queue[i].id = event.entry
       /\ queue[i].retry_count = 1 /\ queue[i].error_message = event.text
       /\ j # i /\ queue[j].task_id = queue[i].task_id /\ queue[j].retry_count = 0

\* C15: within a cycle the batches are dispatched one at a time in snapshot order: batch
\* k is dispatched when exactly the k-1 batches before it have been dispatched and no
\* outcome of them is outstanding; the loop leaves a batch only after its transport
\* failure or the handling of its last outcome; at most one dispatched batch is unfinished.
C15_DispatchStep ==
  (event'.kind \in {"dispatched", "transportFail"})
  => /\ pc = "batch"
     /\ event'.batch = batchIdx
     /\ calls = batchIdx - 1

C15_AdvanceStep ==
  (InCycle /\ batchIdx' # batchIdx)
  => /\ \/ pc = "batch" /\ event'.kind = "transportFail"
        \/ pc = "results" /\ event'.kind = "result" /\ resIdx = Len(batches[batchIdx])
     /\ IF batchIdx < Len(batches)
          THEN batchIdx' = batchIdx + 1 /\ pc' = "batch"
          ELSE pc' = "idle" /\ event'.returned # <<>>

C15_OneAtATime ==
  /\ pc = "batch" => calls = batchIdx - 1 /\ resIdx = 0
  /\ pc = "results" => calls = batchIdx /\ resIdx \in 1..Len(batches[batchIdx])
  /\ InCycle =>
       \A k, l \in DOMAIN batches :
         k < l => \A i \in DOMAIN batches[k], j \in DOMAIN batches[l] :
                    batches[k][i].created_at <= batches[l][j].created_at

C15_SequentialBatches ==
  [][C15_DispatchStep /\ C15_AdvanceStep]_vars /\ []C15_OneAtATime

C15_Witness ==
  /\ event.kind = "dispatched" /\ event.batch = 2
  /\ pc = "results" /\ calls = 2
  /\ batches[1][1].created_at < batches[2][1].created_at

\* the operation kind of the entry a TaskService operation enqueues
OperationOf(kind) ==
  CASE kind = "createTask" -> "create"
    [] kind = "updateTask" -> "update"
    [] kind = "deleteTask" -> "delete"

\* C16: a createTask, updateTask or deleteTask that succeeds leaves the record 'pending'
\* and appends to the queue one new entry for that record, of the matching operation
\* kind and with retry count 0; the entries already queued keep their place and content.
C16_MutatorStep ==
  (event'.kind \in {"createTask", "updateTask", "deleteTask"})
  => /\ event'.task \in DOMAIN tasks'
     /\ tasks'[event'.task].sync_status = "pending"
     /\ Len(queue') = Len(queue) + 1
     /\ SubSeq(queue', 1, Len(queue)) = queue
     /\ queue'[Len(queue')].id \notin Ids(queue)
     /\ queue'[Len(queue')].task_id = event'.task
     /\ queue'[Len(queue')].operation = OperationOf(event'.kind)
     /\ queue'[Len(queue')].retry_count = 0

C16_MutatorsEnqueue == [][C16_MutatorStep]_vars

C16_Witness ==
  /\ event.kind = "updateTask"
  /\ Len(queue) = 2
  /\ queue[1].task_id = event.task /\ queue[1].retry_count > 0
  /\ queue[2].task_id = event.task /\ queue[2].operation = "update"
  /\ queue[2].retry_count = 0
  /\ tasks[event.task].sync_status = "pending"

\* C17: a cycle run with batchSize <= 0 and a non-empty queue builds no batch, dispatches
\* nothing and comes to an end with an error: it is never found in the slice loop.
C17_BatchSizeRejected ==
  batchSize <= 0 => /\ ~Blocked
                    /\ batches = <<>>
                    /\ calls = 0

\* C19: whatever task-route requests and sync cycles have run, every queue entry's
\* task_id is the id of a stored record, and the id a create request answers with is the
\* id of the record it stored.
C19_EntriesTargetStoredRecords ==
  /\ \A i \in DOMAIN queue : queue[i].task_id \in DOMAIN tasks
  /\ event.kind = "postTask" => event.responseId = event.task

\* C12: sync() never lets a failure reach its caller: whatever call fails (probe, queue
\* read, dispatch, record write, retry bookkeeping), an invocation that ends ends by
\* returning a result, and the result of a cycle-level failure has success = false and
\* exactly one error, tagged 'global'.
C12_NeverThrows ==
  /\ event.kind # "thrown"
  /\ event.kind \in {"gateClosed", "cycleFail"}
       => /\ pc = "idle"
          /\ event.result.success = FALSE
          /\ Len(event.result.errors) = 1
          /\ event.result.errors[1].task_id = "global"
  /\ (event.kind \in {"result", "transportFail", "resultFault"} /\ pc = "idle")
       => event.returned # <<>>

C12_Witness ==
  /\ event.kind = "cycleFail" /\ event.where = "batchCatch"
  /\ \E t \in DOMAIN tasks : tasks[t].sync_status = "synced"
  /\ \E i \in DOMAIN queue : queue[i].retry_count > 0

\* the step taken last ended a cycle that had dispatched at least one batch
CycleOver ==
  \/ event.kind \in {"result", "transportFail", "resultFault"} /\ event.returned # <<>>
  \/ event.kind = "cycleFail" /\ event.where = "batchCatch"

\* the SyncResult of that cycle
ResultOfCycle == IF event.kind = "cycleFail" THEN event.result ELSE event.returned[1]

C20_EveryEntryLeaves ==
  \A id \in 1..MaxEntries :
    (batchSize > 0 /\ id \in Ids(queue)) ~> (id \notin Ids(queue))

====
